---- MODULE Spec2Model ----
(***************************************************************************)
(* Model of the DSL dictionary importer (main.go): the Table store, the    *)
(* tag extractors and the line-by-line parse loop of main().               *)
(*                                                                         *)
(* Go strings are modelled as sequences of one-character strings, so that  *)
(* the regular expressions, fmt.Sprint and the concatenation of the unique *)
(* key are computed character by character as the code computes them.      *)
(***************************************************************************)
EXTENDS Integers, Sequences, FiniteSets, TLC

\* ------------------------------------------------------------------------
\* Text primitives (package strings / regexp as used by main.go)
\* ------------------------------------------------------------------------

\* the characters \s matches that occur in the modelled lines
WhiteSpace == {" ", "\t"}

SetMin(S) == CHOOSE m \in S : \A o \in S : m <= o

SetMax(S) == CHOOSE m \in S : \A o \in S : m >= o

\* s has the literal p at position i (1-based)
HasAt(s, p, i) ==
    /\ i >= 1
    /\ i + Len(p) - 1 <= Len(s)
    /\ SubSeq(s, i, i + Len(p) - 1) = p

\* positions at or after i where the literal p occurs in s
Occurrences(s, p, i) == {j \in i..Len(s) : HasAt(s, p, j)}

\* strings.Contains
Contains(s, p) == Occurrences(s, p, 1) # {}

\* first position at or after i that is not whitespace (Len(s)+1 if none): \s*
SkipSpace(s, i) ==
    LET rest == {j \in i..Len(s) : s[j] \notin WhiteSpace}
    IN  IF rest = {} THEN Len(s) + 1 ELSE SetMin(rest)

\* strings.TrimSpace
TrimSpace(s) ==
    LET keep == {j \in 1..Len(s) : s[j] \notin WhiteSpace}
    IN  IF keep = {} THEN <<>> ELSE SubSeq(s, SetMin(keep), SetMax(keep))

\* regexp `\[.*?]` replaced by "" everywhere: each "[" up to the first "]"
\* after it is removed, scanning left to right
RECURSIVE StripTags(_)
StripTags(s) ==
    LET opens == Occurrences(s, <<"[">>, 1)
    IN  IF opens = {} THEN s
        ELSE LET i == SetMin(opens)
                 closes == Occurrences(s, <<"]">>, i + 1)
             IN  IF closes = {} THEN s
                 ELSE SubSeq(s, 1, i - 1)
                          \o StripTags(SubSeq(s, SetMin(closes) + 1, Len(s)))

\* regexp `\s{2,}` replaced by " " everywhere: a run of two or more
\* whitespace characters becomes one space, a single one is kept as it is
RECURSIVE CollapseSpace(_)
CollapseSpace(s) ==
    IF s = <<>> THEN <<>>
    ELSE IF s[1] \notin WhiteSpace THEN <<s[1]>> \o CollapseSpace(Tail(s))
    ELSE LET end == SkipSpace(s, 1)
         IN  (IF end - 1 >= 2 THEN <<" ">> ELSE <<s[1]>>)
                 \o CollapseSpace(SubSeq(s, end, Len(s)))

cleanupLine(inputLine) == TrimSpace(CollapseSpace(StripTags(inputLine)))

\* ------------------------------------------------------------------------
\* Tag extractors
\* ------------------------------------------------------------------------

NameTag ==
    <<"#", "N", "A", "M", "E">>

IndexLanguageTag ==
    <<"#", "I", "N", "D", "E", "X", "_", "L", "A", "N", "G", "U", "A", "G", "E">>

ContentsLanguageTag ==
    <<"#", "C", "O", "N", "T", "E", "N", "T", "S", "_", "L", "A", "N", "G", "U", "A", "G", "E">>

\* regexp `<prefix>\s*"(.*)"`: the leftmost prefix that is followed, after
\* optional whitespace, by a quote with another quote after it; (.*) is
\* greedy and runs to the last quote of the line.  The result is the pair
\* (matched, *dest); *dest is only written on a match.
scanTitle(prefix, inputLine, dest) ==
    LET quote == <<"\"">>
        open(i) == SkipSpace(inputLine, i + Len(prefix))
        starts == {i \in Occurrences(inputLine, prefix, 1) :
                     /\ HasAt(inputLine, quote, open(i))
                     /\ Occurrences(inputLine, quote, open(i) + 1) # {}}
    IN  IF starts = {} THEN [matched |-> FALSE, dest |-> dest]
        ELSE LET q == open(SetMin(starts))
                 r == SetMax(Occurrences(inputLine, quote, q + 1))
             IN  [matched |-> TRUE, dest |-> SubSeq(inputLine, q + 1, r - 1)]

\* regexp `^[^\s\[].*`: the whole line when its first character is neither
\* whitespace nor "[", the empty string otherwise
scanWordArticleTitle(inputLine) ==
    IF inputLine # <<>> /\ inputLine[1] \notin WhiteSpace /\ inputLine[1] # "["
    THEN inputLine
    ELSE <<>>

\* validateBodyLine without the test of the leading whitespace
validateBodyLine_TagsOnly(inputLine) ==
    IF \E expectedTag \in {<<"[", "p", "]">>,
                           <<"[", "t", "r", "n", "]">>,
                           <<"[", "*", "]">>} :
           Contains(inputLine, expectedTag)
    THEN ""
    ELSE "Line is not containing one of expected tags"

\* nil is modelled as the empty error text
validateBodyLine(inputLine) ==
    IF ~(inputLine # <<>> /\ inputLine[1] \in WhiteSpace)
    THEN "Line is not beginning with spaces"
    ELSE IF \E expectedTag \in {<<"[", "p", "]">>,
                                <<"[", "t", "r", "n", "]">>,
                                <<"[", "*", "]">>} :
                Contains(inputLine, expectedTag)
         THEN ""
         ELSE "Line is not containing one of expected tags"

\* regexp `\[trn](.*)\[/trn]`: leftmost "[trn]" with a "[/trn]" after it,
\* (.*) greedy up to the last "[/trn]"
extractTranslation(inputLine) ==
    LET open == <<"[", "t", "r", "n", "]">>
        close == <<"[", "/", "t", "r", "n", "]">>
        starts == {i \in Occurrences(inputLine, open, 1) :
                     Occurrences(inputLine, close, i + Len(open)) # {}}
    IN  IF starts = {} THEN <<>>
        ELSE LET i == SetMin(starts)
                 j == SetMax(Occurrences(inputLine, close, i + Len(open)))
             IN  cleanupLine(SubSeq(inputLine, i + Len(open), j - 1))

\* regexp `\[p.*?](\[c\s*(.*?)])?(.*?)\[/`: the leftmost "[p", its tag
\* closed by the first "]"; then, if it can match, the qualifier tag
\* "[c" \s* value "]"; then the free text up to the first "[/".
\* Returns (res[2], cleanupLine(res[3])).
extractNote(inputLine) ==
    LET closeOf(i) == Occurrences(inputLine, <<"]">>, i + 2)
        ends(j) == Occurrences(inputLine, <<"[", "/">>, j)
        starts == {i \in Occurrences(inputLine, <<"[", "p">>, 1) :
                     closeOf(i) # {} /\ ends(SetMin(closeOf(i)) + 1) # {}}
    IN  IF starts = {} THEN <<<<>>, <<>>>>
        ELSE LET j == SetMin(closeOf(SetMin(starts))) + 1
                 v == SkipSpace(inputLine, j + 2)
                 qcloses == Occurrences(inputLine, <<"]">>, v)
                 hasQualifier ==
                     /\ HasAt(inputLine, <<"[", "c">>, j)
                     /\ qcloses # {}
                     /\ ends(SetMin(qcloses) + 1) # {}
                 k == IF hasQualifier THEN SetMin(qcloses) + 1 ELSE j
                 e == SetMin(ends(k))
             IN  << IF hasQualifier
                    THEN SubSeq(inputLine, v, SetMin(qcloses) - 1)
                    ELSE <<>>,
                    cleanupLine(SubSeq(inputLine, k, e - 1)) >>

\* ------------------------------------------------------------------------
\* Values and the Table store
\* ------------------------------------------------------------------------

\* the interface{} values main() passes to AddRow: Go strings and int64
StringVal(s) == [kind |-> "string", s |-> s, n |-> 0]

Int64Val(n) == [kind |-> "int64", s |-> <<>>, n |-> n]

Digits == <<"0", "1", "2", "3", "4", "5", "6", "7", "8", "9">>

\* decimal text of an integer
RECURSIVE Itoa(_)
Itoa(n) ==
    IF n < 0 THEN <<"-">> \o Itoa(0 - n)
    ELSE IF n < 10 THEN <<Digits[n + 1]>>
    ELSE Itoa(n \div 10) \o <<Digits[(n % 10) + 1]>>

\* fmt.Sprint of one value
Sprint(v) == IF v.kind = "int64" THEN Itoa(v.n) ELSE v.s

\* the empty map[string]int64
EmptyMap == [k \in {} |-> 0]

NewTable(name, columns) ==
    [name |-> name,
     counter |-> 0,
     columns |-> columns,
     rows |-> <<>>,
     uniqueColIndices |-> <<>>,
     uniqueValues |-> EmptyMap]

\* Appends the 0-based index of every named column in turn; an unknown name
\* panics, after the indices of the names before it were appended.
RECURSIVE SetUniqueCols(_, _)
SetUniqueCols(t, uniqueCols) ==
    IF uniqueCols = <<>> THEN [t |-> t, panic |-> ""]
    ELSE LET found == {kCol \in 0..(Len(t.columns) - 1) :
                          t.columns[kCol + 1] = Head(uniqueCols)}
         IN  IF found = {} THEN [t |-> t, panic |-> "Unknown unique column"]
             ELSE SetUniqueCols(
                      [t EXCEPT !.uniqueColIndices = Append(@, SetMin(found))],
                      Tail(uniqueCols))

\* a unique key made of the first unique column only
ConcatUnique_FirstOnly(uniqueColIndices, row) ==
    IF uniqueColIndices = <<>> THEN <<>>
    ELSE Sprint(row[Head(uniqueColIndices) + 1])

\* concatUniqueValue: the texts of the unique columns' values, in the order
\* of uniqueColIndices, joined with nothing between them
RECURSIVE ConcatUnique(_, _)
ConcatUnique(uniqueColIndices, row) ==
    IF uniqueColIndices = <<>> THEN <<>>
    ELSE Sprint(row[Head(uniqueColIndices) + 1])
             \o ConcatUnique(Tail(uniqueColIndices), row)

\* the unique-key part and the append of AddRow, for a row of the right
\* length; lookup: an existing key is returned; countHits: a returned key
\* advances the counter as well
AddRow_Variant(t, row, lookup, countHits) ==
    LET counter == t.counter + 1
        concatUniqueValue == ConcatUnique(t.uniqueColIndices, row)
        rowStrs == [i \in 1..Len(row) |-> Sprint(row[i])]
    IN  IF /\ lookup
           /\ Len(t.uniqueColIndices) > 0
           /\ concatUniqueValue \in DOMAIN t.uniqueValues
        THEN [t |-> IF countHits THEN [t EXCEPT !.counter = counter] ELSE t,
              id |-> t.uniqueValues[concatUniqueValue], panic |-> ""]
        ELSE [t |-> [t EXCEPT
                       !.uniqueValues =
                           IF Len(t.uniqueColIndices) > 0
                           THEN [k \in DOMAIN @ \cup {concatUniqueValue} |->
                                    IF k = concatUniqueValue
                                    THEN counter ELSE @[k]]
                           ELSE @,
                       !.rows = Append(@, rowStrs),
                       !.counter = counter],
              id |-> counter,
              panic |-> ""]

\* AddRow that never looks the key up: a repeated key appends again
AddRow_NoLookup(t, row) ==
    IF Len(row) # Len(t.columns)
    THEN [t |-> t, id |-> 0,
          panic |-> "Columns count in a row does not correspond"]
    ELSE AddRow_Variant(t, row, FALSE, FALSE)

\* AddRow that cuts or pads the row to the column count instead of
\* rejecting it
AddRow_Truncating(t, row) ==
    AddRow_Variant(t,
                   [i \in 1..Len(t.columns) |->
                       IF i <= Len(row) THEN row[i] ELSE StringVal(<<>>)],
                   TRUE, FALSE)

\* AddRow that advances the counter before the lookup: a repeated key uses
\* up an identity
AddRow_CountsHits(t, row) ==
    IF Len(row) # Len(t.columns)
    THEN [t |-> t, id |-> 0,
          panic |-> "Columns count in a row does not correspond"]
    ELSE AddRow_Variant(t, row, TRUE, TRUE)

\* AddRow that keeps the key index also for a table without unique columns:
\* every row of such a table has the empty key
AddRow_AlwaysKeyed(t, row) ==
    LET counter == t.counter + 1
        concatUniqueValue == ConcatUnique(t.uniqueColIndices, row)
        rowStrs == [i \in 1..Len(row) |-> Sprint(row[i])]
    IN  IF Len(row) # Len(t.columns)
        THEN [t |-> t, id |-> 0,
              panic |-> "Columns count in a row does not correspond"]
        ELSE IF concatUniqueValue \in DOMAIN t.uniqueValues
        THEN [t |-> t, id |-> t.uniqueValues[concatUniqueValue], panic |-> ""]
        ELSE [t |-> [t EXCEPT
                       !.uniqueValues =
                           [k \in DOMAIN @ \cup {concatUniqueValue} |->
                               IF k = concatUniqueValue THEN counter ELSE @[k]],
                       !.rows = Append(@, rowStrs),
                       !.counter = counter],
              id |-> counter,
              panic |-> ""]

\* The result is the table after the call, the identity returned and the
\* panic raised ("" when none; a panicking call returns nothing, id is 0).
AddRow(t, row) ==
    LET counter == t.counter + 1
        rowColsCount == Len(row)
        tableRowsCount == Len(t.columns)
        concatUniqueValue == ConcatUnique(t.uniqueColIndices, row)
        rowStrs == [i \in 1..Len(row) |-> Sprint(row[i])]
    IN  IF rowColsCount # tableRowsCount
        THEN [t |-> t, id |-> 0,
              panic |-> "Columns count in a row does not correspond"]
        ELSE IF /\ Len(t.uniqueColIndices) > 0
                /\ concatUniqueValue \in DOMAIN t.uniqueValues
        THEN [t |-> t, id |-> t.uniqueValues[concatUniqueValue], panic |-> ""]
        ELSE [t |-> [t EXCEPT
                       !.uniqueValues =
                           IF Len(t.uniqueColIndices) > 0
                           THEN [k \in DOMAIN @ \cup {concatUniqueValue} |->
                                    IF k = concatUniqueValue
                                    THEN counter ELSE @[k]]
                           ELSE @,
                       !.rows = Append(@, rowStrs),
                       !.counter = counter],
              id |-> counter,
              panic |-> ""]

\* col and row are 0-based slice indices; a negative one passes both range
\* tests and makes the indexing itself panic.
Change(t, val, col, row) ==
    IF row > Len(t.rows) - 1
    THEN [t |-> t, panic |-> "Row is out of range"]
    ELSE IF col > Len(t.columns) - 1
    THEN [t |-> t, panic |-> "Column is out of range"]
    ELSE IF row < 0 \/ col < 0
    THEN [t |-> t, panic |-> "runtime error: index out of range"]
    ELSE [t |-> [t EXCEPT !.rows[row + 1][col + 1] = val], panic |-> ""]

\* The rendered table: caption, header with "Id" prepended, and one line
\* per row with k + 1 prepended, k the row's 0-based position.
String(t) ==
    [caption |-> t.name,
     header |-> <<"Id">> \o t.columns,
     lines |-> [i \in 1..Len(t.rows) |->
                   LET k == i - 1 IN <<Itoa(k + 1)>> \o t.rows[k + 1]]]

\* the tables as main() declares them, before the first line is read
InitialTables ==
    [wordsTable |->
         NewTable("words", <<"word", "dic_id", "lang_id">>),
     dictionariesTable |->
         NewTable("dictionaries", <<"name">>),
     translationsTable |->
         SetUniqueCols(
             NewTable("translations", <<"word_from_id", "word_to_id">>),
             <<"word_from_id", "word_to_id">>).t,
     gramTypeTable |->
         SetUniqueCols(NewTable("gramTypes", <<"value">>), <<"value">>).t,
     gramTypeTranslationTable |->
         SetUniqueCols(
             NewTable("gramTypesToTranslations",
                      <<"gram_type_id", "translation_id">>),
             <<"gram_type_id", "translation_id">>).t,
     translationAttributesTable |->
         SetUniqueCols(NewTable("translationAttributes", <<"value">>),
                       <<"value">>).t,
     translationAttributesToTranslationsTable |->
         SetUniqueCols(
             NewTable("translationAttributesTranslations",
                      <<"attribute_id", "translation_id">>),
             <<"attribute_id", "translation_id">>).t,
     languagesTable |->
         SetUniqueCols(NewTable("languages", <<"name">>), <<"name">>).t]

TableNames == DOMAIN InitialTables

\* the slice main() prints at the end, in its order
tables ==
    <<"wordsTable", "dictionariesTable", "languagesTable",
      "translationsTable", "gramTypeTable", "gramTypeTranslationTable",
      "translationAttributesTable">>

\* ------------------------------------------------------------------------
\* Input lines
\* ------------------------------------------------------------------------

LineNameA ==
    <<"#", "N", "A", "M", "E", " ", "\"", "A", "\"">>

LineNameB ==
    <<"#", "N", "A", "M", "E", " ", "\"", "B", "\"">>

LineNameEmpty ==
    <<"#", "N", "A", "M", "E", " ", "\"", "\"">>

LineIndexLanguage ==
    <<"#", "I", "N", "D", "E", "X", "_", "L", "A", "N", "G", "U", "A", "G", "E", " ", "\"", "E", "n", "\"">>

LineContentsLanguage ==
    <<"#", "C", "O", "N", "T", "E", "N", "T", "S", "_", "L", "A", "N", "G", "U", "A", "G", "E", " ", "\"", "F", "r", "\"">>

LineHeadword ==
    <<"c", "a", "t">>

LineNoteTrn ==
    <<" ", "[", "p", "]", "n", "[", "/", "p", "]", "[", "t", "r", "n", "]", "c", "h", "a", "t", "[", "/", "t", "r", "n", "]">>

LineTrn ==
    <<" ", "[", "t", "r", "n", "]", "b", "a", "r", "[", "/", "t", "r", "n", "]">>

LineNote ==
    <<" ", "[", "p", "]", "n", "o", "u", "n", "[", "/", "p", "]">>

LineUnindentedTrn ==
    <<"n", "i", "[", "t", "r", "n", "]", "x", "[", "/", "t", "r", "n", "]">>

LineBracketTrn ==
    <<"[", "t", "r", "n", "]", "x", "[", "/", "t", "r", "n", "]">>

LineNoTag ==
    <<" ", "p", "l", "a", "i", "n">>

LineRelation ==
    <<"\t", "[", "*", "]", "s", "e", "e", "[", "/", "*", "]">>

LineQualifierTrn ==
    <<" ", "[", "p", "]", "[", "c", " ", "g", "]", "a", "d", "j", "[", "/", "p", "]", "[", "t", "r", "n", "]", "v", "[", "/", "t", "r", "n", "]">>

LineBlank ==
    <<" ", " ">>

\* a header pattern inside a line that begins with a tag
LineBracketName ==
    <<"[", "b", "]", "#", "N", "A", "M", "E", "\"", "C", "\"">>

Lines ==
    {LineNameA, LineNameB, LineNameEmpty, LineIndexLanguage,
     LineContentsLanguage, LineHeadword, LineNoteTrn, LineTrn, LineNote,
     LineUnindentedTrn, LineBracketTrn, LineNoTag, LineRelation,
     LineQualifierTrn, LineBlank, LineBracketName}

\* longest input file made of arbitrary lines
MaxLines == 3

\* the end-to-end example: three headers, a headword, a note+translation line
EndToEndInput ==
    <<LineNameA, LineIndexLanguage, LineContentsLanguage, LineHeadword,
      LineNoteTrn>>

\* a note-only line of one headword followed by a translation of the next
TwoHeadwordsInput ==
    <<LineHeadword, LineNote, LineTrn, LineHeadword, LineTrn>>

\* the note-only line " [p]<text>[/p]"
NoteLineWith(text) ==
    <<" ", "[", "p", "]">> \o text \o <<"[", "/", "p", "]">>

NoteTexts == <<"a", "b", "c", "d", "e", "f", "g", "h", "i", "j", "k">>

\* a headword with eleven different notes, a translation under the
\* eleventh, then the first note again and ten more translations
ManyNotesInput ==
    <<LineHeadword>>
        \o [i \in 1..Len(NoteTexts) |-> NoteLineWith(<<NoteTexts[i]>>)]
        \o <<LineTrn, NoteLineWith(<<NoteTexts[1]>>)>>
        \o [i \in 1..(Len(NoteTexts) - 1) |-> LineTrn]

\* the input files: every sequence of at most MaxLines lines, and the
\* longer examples
Inputs ==
    UNION {[1..n -> Lines] : n \in 0..MaxLines}
        \cup {EndToEndInput, TwoHeadwordsInput, ManyNotesInput}

\* ------------------------------------------------------------------------
\* State
\* ------------------------------------------------------------------------

VARIABLES
    db,             \* the eight Table objects, by the name of main()'s variable
    dicId, langFromId, langToId, wordFromId, gramTypeId, attributeId,
    translationId, wordToId,               \* main()'s int64 locals
    dicName, langFromName, langToName,     \* main()'s string locals
    input,          \* the decoded lines of the file
    pos,            \* number of lines the scanner has delivered
    pc,             \* "scan", "calls", "panic" or "done"
    out,            \* the tables printed so far
    trace,          \* history: the branch of the loop each line took
    target,         \* the table a direct caller exercises ("" under main())
    call,           \* history: the last direct call, its arguments and result
    nops,           \* number of direct calls made
    inserted        \* history: the argument rows that were appended to target

ids == <<dicId, langFromId, langToId, wordFromId, gramTypeId, attributeId,
         translationId, wordToId>>

names == <<dicName, langFromName, langToName>>

direct == <<target, call, nops, inserted>>

vars == <<db, ids, names, input, pos, pc, out, trace, direct>>

NoCall ==
    [op |-> "", row |-> <<>>, val |-> <<>>, col |-> 0, rowIndex |-> 0,
     id |-> 0, panic |-> "", appended |-> FALSE]

\* main() up to the first scanner.Scan()
Init ==
    /\ db = InitialTables
    /\ dicId = 0 /\ langFromId = 0 /\ langToId = 0 /\ wordFromId = 0
    /\ gramTypeId = 0 /\ attributeId = 0 /\ translationId = 0 /\ wordToId = 0
    /\ dicName = <<>> /\ langFromName = <<>> /\ langToName = <<>>
    /\ input \in Inputs
    /\ pos = 0
    /\ pc = "scan"
    /\ out = <<>>
    /\ trace = <<>>
    /\ target = ""
    /\ call = NoCall
    /\ nops = 0
    /\ inserted = <<>>

\* ------------------------------------------------------------------------
\* The parse loop of main(): one action per branch of the loop body
\* ------------------------------------------------------------------------

\* LineKind whose note branch does not ask for the translation to be empty
LineKind_NoteFirst(line) ==
    IF TrimSpace(line) = <<>> THEN "blank"
    ELSE IF dicName = <<>> /\ scanTitle(NameTag, line, dicName).matched
    THEN "name"
    ELSE IF /\ langFromName = <<>>
            /\ scanTitle(IndexLanguageTag, line, langFromName).matched
    THEN "index"
    ELSE IF /\ langToName = <<>>
            /\ scanTitle(ContentsLanguageTag, line, langToName).matched
    THEN "contents"
    ELSE IF scanWordArticleTitle(line) # <<>> THEN "title"
    ELSE IF validateBodyLine(line) # "" THEN "invalid"
    ELSE LET note == extractNote(line)[2]
             translation == extractTranslation(line)
         IN  IF note # <<>> THEN "note"
             ELSE IF translation # <<>> THEN "translation"
             ELSE "none"

\* the branch of the loop body the line takes in the current state; the
\* tests are made in the order of the code and the first that holds wins
LineKind(line) ==
    IF TrimSpace(line) = <<>> THEN "blank"
    ELSE IF dicName = <<>> /\ scanTitle(NameTag, line, dicName).matched
    THEN "name"
    ELSE IF /\ langFromName = <<>>
            /\ scanTitle(IndexLanguageTag, line, langFromName).matched
    THEN "index"
    ELSE IF /\ langToName = <<>>
            /\ scanTitle(ContentsLanguageTag, line, langToName).matched
    THEN "contents"
    ELSE IF scanWordArticleTitle(line) # <<>> THEN "title"
    ELSE IF validateBodyLine(line) # "" THEN "invalid"
    ELSE LET note == extractNote(line)[2]
             translation == extractTranslation(line)
         IN  IF note # <<>> /\ translation = <<>> THEN "note"
             ELSE IF translation # <<>> THEN "translation"
             ELSE "none"

\* scanner.Scan() delivered the next line and the loop body takes branch kind
Scanned(kind) ==
    /\ pc = "scan"
    /\ pos < Len(input)
    /\ LineKind(input[pos + 1]) = kind
    /\ pos' = pos + 1
    /\ trace' = Append(trace, kind)
    /\ UNCHANGED <<input, out, direct>>

BlankLine ==
    /\ Scanned("blank")
    /\ UNCHANGED <<db, ids, names, pc>>

NameHeader ==
    /\ Scanned("name")
    /\ LET title == scanTitle(NameTag, input[pos + 1], dicName)
           added == AddRow(db.dictionariesTable, <<StringVal(title.dest)>>)
       IN  /\ dicName' = title.dest
           /\ dicId' = added.id
           /\ db' = [db EXCEPT !.dictionariesTable = added.t]
    /\ UNCHANGED <<langFromId, langToId, wordFromId, gramTypeId, attributeId,
                   translationId, wordToId, langFromName, langToName, pc>>

IndexLanguageHeader ==
    /\ Scanned("index")
    /\ LET title == scanTitle(IndexLanguageTag, input[pos + 1], langFromName)
           added == AddRow(db.languagesTable, <<StringVal(title.dest)>>)
       IN  /\ langFromName' = title.dest
           /\ langFromId' = added.id
           /\ db' = [db EXCEPT !.languagesTable = added.t]
    /\ UNCHANGED <<dicId, langToId, wordFromId, gramTypeId, attributeId,
                   translationId, wordToId, dicName, langToName, pc>>

ContentsLanguageHeader ==
    /\ Scanned("contents")
    /\ LET title == scanTitle(ContentsLanguageTag, input[pos + 1], langToName)
           added == AddRow(db.languagesTable, <<StringVal(title.dest)>>)
       IN  /\ langToName' = title.dest
           /\ langToId' = added.id
           /\ db' = [db EXCEPT !.languagesTable = added.t]
    /\ UNCHANGED <<dicId, langFromId, wordFromId, gramTypeId, attributeId,
                   translationId, wordToId, dicName, langFromName, pc>>

\* a headword line that keeps the grammar type and attribute of the
\* previous headword
WordArticleTitle_NoReset ==
    /\ Scanned("title")
    /\ LET wordArticleTitle == scanWordArticleTitle(input[pos + 1])
           added == AddRow(db.wordsTable,
                           <<StringVal(wordArticleTitle), Int64Val(dicId),
                             Int64Val(langFromId)>>)
       IN  /\ wordFromId' = added.id
           /\ db' = [db EXCEPT !.wordsTable = added.t]
    /\ UNCHANGED <<dicId, langFromId, langToId, gramTypeId, attributeId,
                   translationId, wordToId, names, pc>>

WordArticleTitle ==
    /\ Scanned("title")
    /\ LET wordArticleTitle == scanWordArticleTitle(input[pos + 1])
           added == AddRow(db.wordsTable,
                           <<StringVal(wordArticleTitle), Int64Val(dicId),
                             Int64Val(langFromId)>>)
       IN  /\ wordFromId' = added.id
           /\ db' = [db EXCEPT !.wordsTable = added.t]
    /\ gramTypeId' = 0
    /\ attributeId' = 0
    /\ UNCHANGED <<dicId, langFromId, langToId, translationId, wordToId,
                   names, pc>>

\* an invalid body line that is skipped instead of ending the run
InvalidBodyLine_Skips ==
    /\ Scanned("invalid")
    /\ UNCHANGED <<db, ids, names, pc>>

\* errs.FailOnError on the error of validateBodyLine: the run ends here,
\* before the loop that prints the tables
InvalidBodyLine ==
    /\ Scanned("invalid")
    /\ pc' = "panic"
    /\ UNCHANGED <<db, ids, names>>

NoteLine ==
    /\ Scanned("note")
    /\ LET note == extractNote(input[pos + 1])[2]
           added == AddRow(db.gramTypeTable, <<StringVal(note)>>)
       IN  /\ gramTypeId' = added.id
           /\ db' = [db EXCEPT !.gramTypeTable = added.t]
    /\ UNCHANGED <<dicId, langFromId, langToId, wordFromId, attributeId,
                   translationId, wordToId, names, pc>>

\* the translation branch without the test that the note is not empty
TranslationLine_AlwaysAttribute ==
    /\ Scanned("translation")
    /\ LET note == extractNote(input[pos + 1])[2]
           translation == extractTranslation(input[pos + 1])
           word == AddRow(db.wordsTable,
                          <<StringVal(translation), Int64Val(dicId),
                            Int64Val(langToId)>>)
           trans == AddRow(db.translationsTable,
                           <<Int64Val(wordFromId), Int64Val(word.id)>>)
           attr == AddRow(db.translationAttributesTable, <<StringVal(note)>>)
           attrTrans == AddRow(db.translationAttributesToTranslationsTable,
                               <<Int64Val(attr.id), Int64Val(trans.id)>>)
           gramTrans == AddRow(db.gramTypeTranslationTable,
                               <<Int64Val(gramTypeId), Int64Val(trans.id)>>)
       IN  /\ wordToId' = word.id
           /\ translationId' = trans.id
           /\ attributeId' = 0
           /\ db' = [db EXCEPT
                       !.wordsTable = word.t,
                       !.translationsTable = trans.t,
                       !.translationAttributesTable = attr.t,
                       !.translationAttributesToTranslationsTable =
                           attrTrans.t,
                       !.gramTypeTranslationTable =
                           IF gramTypeId > 0 THEN gramTrans.t ELSE @]
    /\ UNCHANGED <<dicId, langFromId, langToId, wordFromId, gramTypeId,
                   names, pc>>

TranslationLine ==
    /\ Scanned("translation")
    /\ LET note == extractNote(input[pos + 1])[2]
           translation == extractTranslation(input[pos + 1])
           word == AddRow(db.wordsTable,
                          <<StringVal(translation), Int64Val(dicId),
                            Int64Val(langToId)>>)
           trans == AddRow(db.translationsTable,
                           <<Int64Val(wordFromId), Int64Val(word.id)>>)
           attr == AddRow(db.translationAttributesTable, <<StringVal(note)>>)
           attrTrans == AddRow(db.translationAttributesToTranslationsTable,
                               <<Int64Val(attr.id), Int64Val(trans.id)>>)
           gramTrans == AddRow(db.gramTypeTranslationTable,
                               <<Int64Val(gramTypeId), Int64Val(trans.id)>>)
       IN  /\ wordToId' = word.id
           /\ translationId' = trans.id
           /\ attributeId' = IF note # <<>> THEN 0 ELSE attributeId
           /\ db' = [db EXCEPT
                       !.wordsTable = word.t,
                       !.translationsTable = trans.t,
                       !.translationAttributesTable =
                           IF note # <<>> THEN attr.t ELSE @,
                       !.translationAttributesToTranslationsTable =
                           IF note # <<>> THEN attrTrans.t ELSE @,
                       !.gramTypeTranslationTable =
                           IF gramTypeId > 0 THEN gramTrans.t ELSE @]
    /\ UNCHANGED <<dicId, langFromId, langToId, wordFromId, gramTypeId,
                   names, pc>>

\* a body line with neither a note nor a translation that ends the current
\* grammar type
NoEffectLine_ResetsGrammar ==
    /\ Scanned("none")
    /\ gramTypeId' = 0
    /\ UNCHANGED <<db, dicId, langFromId, langToId, wordFromId, attributeId,
                   translationId, wordToId, names, pc>>

\* a valid body line with neither a note nor a translation
NoEffectLine ==
    /\ Scanned("none")
    /\ UNCHANGED <<db, ids, names, pc>>

\* end of input: the loop over tables prints each of them
PrintTables ==
    /\ pc = "scan"
    /\ pos = Len(input)
    /\ out' = [i \in 1..Len(tables) |-> String(db[tables[i]])]
    /\ pc' = "done"
    /\ UNCHANGED <<db, ids, names, input, pos, trace, direct>>

Next ==
    \/ BlankLine
    \/ NameHeader
    \/ IndexLanguageHeader
    \/ ContentsLanguageHeader
    \/ WordArticleTitle
    \/ InvalidBodyLine
    \/ NoteLine
    \/ TranslationLine
    \/ NoEffectLine
    \/ PrintTables

Spec == Init /\ [][Next]_vars

\* ------------------------------------------------------------------------
\* The Table store called directly: any sequence of AddRow and Change calls
\* on one of the tables main() declares
\* ------------------------------------------------------------------------

\* most direct calls in one run
MaxOps == 3

\* longest argument list passed to AddRow
MaxRowLen == 3

\* the values passed in direct calls
Values == {Int64Val(1), Int64Val(11), StringVal(<<"1">>)}

\* the cell texts passed to Change
CellTexts == {<<"1">>, <<"1", "1">>}

Rows == UNION {[1..n -> Values] : n \in 1..MaxRowLen}

InitTable ==
    /\ db = InitialTables
    /\ dicId = 0 /\ langFromId = 0 /\ langToId = 0 /\ wordFromId = 0
    /\ gramTypeId = 0 /\ attributeId = 0 /\ translationId = 0 /\ wordToId = 0
    /\ dicName = <<>> /\ langFromName = <<>> /\ langToName = <<>>
    /\ input = <<>>
    /\ pos = 0
    /\ pc = "calls"
    /\ out = <<>>
    /\ trace = <<>>
    /\ target \in TableNames
    /\ call = NoCall
    /\ nops = 0
    /\ inserted = <<>>

\* a panic is not recovered: it ends the run
CallAddRow ==
    /\ pc = "calls"
    /\ nops < MaxOps
    /\ \E row \in Rows :
         LET added == AddRow(db[target], row)
         IN  /\ db' = [db EXCEPT ![target] = added.t]
             /\ call' = [NoCall EXCEPT !.op = "AddRow", !.row = row,
                                       !.id = added.id, !.panic = added.panic,
                                       !.appended = Len(added.t.rows)
                                                      > Len(db[target].rows)]
             /\ pc' = IF added.panic # "" THEN "panic" ELSE pc
             /\ inserted' = IF Len(added.t.rows) > Len(db[target].rows)
                            THEN Append(inserted, row) ELSE inserted
    /\ nops' = nops + 1
    /\ UNCHANGED <<ids, names, input, pos, out, trace, target>>

CallChange ==
    /\ pc = "calls"
    /\ nops < MaxOps
    /\ \E val \in CellTexts, col \in -1..Len(db[target].columns),
          row \in -1..Len(db[target].rows) :
         LET changed == Change(db[target], val, col, row)
         IN  /\ db' = [db EXCEPT ![target] = changed.t]
             /\ call' = [NoCall EXCEPT !.op = "Change", !.val = val,
                                       !.col = col, !.rowIndex = row,
                                       !.panic = changed.panic]
             /\ pc' = IF changed.panic # "" THEN "panic" ELSE pc
    /\ nops' = nops + 1
    /\ UNCHANGED <<ids, names, input, pos, out, trace, target, inserted>>

NextTable ==
    \/ CallAddRow
    \/ CallChange

SpecTable == InitTable /\ [][NextTable]_vars

\* ------------------------------------------------------------------------
\* Properties
\* ------------------------------------------------------------------------

Last(seq) == seq[Len(seq)]

\* number of lines so far that took one of the given branches
CountKinds(kinds) == Cardinality({i \in 1..Len(trace) : trace[i] \in kinds})

\* the values of a row's unique-key columns, as passed to AddRow
KeyValues(t, row) ==
    [i \in 1..Len(t.uniqueColIndices) |-> row[t.uniqueColIndices[i] + 1]]

\* the concatenated unique-key text of a stored row
RECURSIVE KeyText(_, _)
KeyText(uniqueColIndices, rowStrs) ==
    IF uniqueColIndices = <<>> THEN <<>>
    ELSE rowStrs[Head(uniqueColIndices) + 1]
             \o KeyText(Tail(uniqueColIndices), rowStrs)

TextN == <<"n">>

TextChat == <<"c", "h", "a", "t">>

\* the three stores the end-to-end example fills from its headers, its
\* headword and its translation
EndToEndCommon ==
    /\ db.dictionariesTable.rows = << <<<<"A">>>> >>
    /\ db.languagesTable.rows = << <<<<"E", "n">>>>, <<<<"F", "r">>>> >>
    /\ db.wordsTable.rows = << <<LineHeadword, Itoa(1), Itoa(1)>>,
                               <<TextChat, Itoa(1), Itoa(2)>> >>
    /\ db.translationsTable.rows = << <<Itoa(1), Itoa(2)>> >>

GrammarPersistenceInput == <<LineHeadword, LineNoteTrn, LineTrn>>

TrnTag == <<"[", "t", "r", "n", "]">>

\* the step reads the next line of the input
ReadsLine == pc = "scan" /\ pos' = pos + 1

\* C3 as claimed: reading a non-blank line that contains [trn] and does not
\* begin with whitespace aborts the run, adds no row and renders no table.
C3_ValidationAbortAsClaimed ==
    [][(/\ ReadsLine
        /\ Contains(input[pos + 1], TrnTag)
        /\ input[pos + 1][1] \notin WhiteSpace)
            => (pc' = "panic" /\ db' = db /\ out' = <<>>)]_vars

\* C3 amended: reading a line that contains [trn], begins with "[" and is
\* not taken as a header line aborts the run with the validation error, adds
\* no row and renders no table (a line that begins with any other
\* non-whitespace character is a headword line and does not abort); after
\* an abort the run takes no further step.
C3_ValidationAbort ==
    [][/\ (/\ ReadsLine
           /\ Contains(input[pos + 1], TrnTag)
           /\ input[pos + 1][1] = "["
           /\ LineKind(input[pos + 1]) \notin {"name", "index", "contents"})
               => /\ pc' = "panic"
                  /\ validateBodyLine(input[pos + 1])
                         = "Line is not beginning with spaces"
                  /\ db' = db
                  /\ out' = <<>>
       \* nothing happens after the abort
       /\ pc # "panic"]_vars

C3_Witness ==
    /\ pc = "panic"
    /\ pos >= 2
    /\ input[pos] = LineBracketTrn
    /\ out = <<>>

\* the line matches the header pattern of the given tag
IsHeader(tag, line) == scanTitle(tag, line, <<>>).matched

\* C4 as claimed: once a header with a non-empty value was processed, a
\* later header line of the same kind adds no row to any store and changes
\* no session state.
C4_HeaderFirstWins ==
    [][(/\ ReadsLine
        /\ \/ dicName # <<>> /\ IsHeader(NameTag, input[pos + 1])
           \/ langFromName # <<>> /\ IsHeader(IndexLanguageTag, input[pos + 1])
           \/ langToName # <<>>
                  /\ IsHeader(ContentsLanguageTag, input[pos + 1]))
            => (db' = db /\ ids' = ids /\ names' = names)]_vars

\* the direct call made by this step
Calls(op) == pc = "calls" /\ nops' = nops + 1 /\ call'.op = op

\* C5: in a store with a unique key, an AddRow whose key-column values equal
\* those of an already inserted row returns that row's identity and leaves
\* the store (rows, counter, key index) unchanged; two AddRow calls in a row
\* with the same key return the same identity, and the second adds nothing,
\* so the pair adds exactly the one row of the first.
C5_IdempotentDedup ==
    [][(/\ Calls("AddRow")
        /\ call'.panic = ""
        /\ db[target].uniqueColIndices # <<>>)
            => /\ \A i \in 1..Len(inserted) :
                    KeyValues(db[target], inserted[i])
                        = KeyValues(db[target], call'.row)
                    => (call'.id = i /\ db' = db /\ inserted' = inserted)
               /\ (/\ call.op = "AddRow"
                   /\ KeyValues(db[target], call.row)
                          = KeyValues(db[target], call'.row))
                    => /\ call'.id = call.id
                       /\ db' = db
                       /\ call.appended
                              => Len(db'[target].rows) = call.id]_vars

\* a third call repeats the key of the row the first call appended
C5_Witness ==
    /\ nops = 3
    /\ call.op = "AddRow"
    /\ call.panic = ""
    /\ ~call.appended
    /\ db[target].uniqueColIndices # <<>>
    /\ Len(inserted) = 2
    /\ KeyValues(db[target], inserted[1]) = KeyValues(db[target], call.row)
    /\ call.id = 1

\* C6: the Word store has no unique key and every insert appends: the
\* number of Word rows is the number of headword lines plus the number of
\* body lines with a translation, the identity returned by each insert is
\* that of the row just appended, also when an identical row exists.
C6_WordsNeverDeduplicated ==
    /\ db.wordsTable.uniqueColIndices = <<>>
    /\ Len(db.wordsTable.rows) = CountKinds({"title", "translation"})
    /\ db.wordsTable.counter = Len(db.wordsTable.rows)
    /\ (trace # <<>> /\ Last(trace) = "title")
           => /\ wordFromId = Len(db.wordsTable.rows)
              /\ db.wordsTable.rows[wordFromId]
                     = <<input[pos], Itoa(dicId), Itoa(langFromId)>>
    /\ (trace # <<>> /\ Last(trace) = "translation")
           => /\ wordToId = Len(db.wordsTable.rows)
              /\ db.wordsTable.rows[wordToId]
                     = <<extractTranslation(input[pos]), Itoa(dicId),
                         Itoa(langToId)>>

\* two identical Word rows under two identities
C6_Witness ==
    /\ Len(db.wordsTable.rows) = 3
    /\ db.wordsTable.rows[2] = db.wordsTable.rows[3]
    /\ wordToId = 3
    /\ Last(trace) = "translation"

\* C7: an AddRow whose number of values differs from the number of columns
\* panics with the column-count error and leaves the store unchanged.
C7_SchemaMismatch ==
    [][(/\ Calls("AddRow")
        /\ Len(call'.row) # Len(db[target].columns))
            => /\ call'.panic = "Columns count in a row does not correspond"
               /\ pc' = "panic"
               /\ db' = db]_vars

C7_Witness ==
    /\ pc = "panic"
    /\ call.op = "AddRow"
    /\ Len(call.row) = Len(db[target].columns) + 1
    /\ Len(db[target].rows) = 2
    /\ db[target].uniqueColIndices # <<>>

\* C8 as claimed: every Translation row's word_from_id and word_to_id are
\* identities of existing Word rows.
C8_TranslationsReferenceWords ==
    \A k \in 1..Len(db.translationsTable.rows) :
        \A c \in 1..2 :
            \E w \in 1..Len(db.wordsTable.rows) :
                db.translationsTable.rows[k][c] = Itoa(w)

\* C9: in every store the counter equals the number of rows; a call adds at
\* most one row, at the end; the identity returned for an appended row is
\* the previous row count plus one and is the Id it is rendered with; rows
\* are never removed or reordered.
C9_SequentialIdentities ==
    [][\A n \in TableNames :
         LET t == db[n]
             u == db'[n]
         IN  /\ u.counter = Len(u.rows)
             /\ Len(u.rows) \in {Len(t.rows), Len(t.rows) + 1}
             /\ call'.op = "AddRow" => SubSeq(u.rows, 1, Len(t.rows)) = t.rows
             /\ call'.op = "Change" => Len(u.rows) = Len(t.rows)
             /\ Len(u.rows) = Len(t.rows) + 1
                    => /\ n = target
                       /\ call'.op = "AddRow"
                       /\ call'.id = Len(t.rows) + 1
                       /\ String(u).lines[call'.id]
                              = <<Itoa(call'.id)>>
                                    \o [i \in 1..Len(call'.row) |->
                                           Sprint(call'.row[i])]
             /\ (n = target /\ Len(u.rows) = Len(t.rows))
                    => (call'.op = "AddRow" /\ call'.panic = ""
                            => call'.id \in 1..Len(t.rows))
             /\ \A i \in 1..Len(u.rows) : String(u).lines[i][1] = Itoa(i)]_vars

\* an append after an append and a call that added nothing
C9_Witness ==
    /\ nops = 3
    /\ call.op = "AddRow"
    /\ call.appended
    /\ call.id = 2
    /\ db[target].counter = 2

\* C10 as claimed: in a store with a unique key no two rows have the same
\* concatenated unique-key value, and an AddRow of a key equal to the
\* current key of an existing row returns that row's identity.
C10_UniqueKeysDistinct ==
    [][LET t == db[target]
           u == db'[target]
       IN  /\ u.uniqueColIndices # <<>>
                  => \A i, j \in 1..Len(u.rows) :
                        i # j => KeyText(u.uniqueColIndices, u.rows[i])
                                     # KeyText(u.uniqueColIndices, u.rows[j])
           /\ (/\ Calls("AddRow")
               /\ call'.panic = ""
               /\ t.uniqueColIndices # <<>>)
                  => \A i \in 1..Len(t.rows) :
                        KeyText(t.uniqueColIndices, t.rows[i])
                            = ConcatUnique(t.uniqueColIndices, call'.row)
                        => call'.id = i]_vars

\* C11 as claimed: Change with the identity of an existing row and a valid
\* column index overwrites that one cell of that row and nothing else; with
\* any other row or column index it fails and changes nothing.
C11_SetCellByIdentity ==
    [][Calls("Change")
          => LET t == db[target]
                 rowId == call'.rowIndex
                 columnIndex == call'.col
             IN  IF /\ rowId \in 1..Len(t.rows)
                    /\ columnIndex \in 0..(Len(t.columns) - 1)
                 THEN /\ call'.panic = ""
                      /\ db' = [db EXCEPT
                                  ![target].rows[rowId][columnIndex + 1] =
                                      call'.val]
                 ELSE /\ call'.panic # ""
                      /\ db' = db]_vars

ExpectedTags ==
    {<<"[", "p", "]">>, <<"[", "t", "r", "n", "]">>, <<"[", "*", "]">>}

\* a body line: not blank, not taken as a header, not a headword line
IsBodyLine(line) ==
    /\ TrimSpace(line) # <<>>
    /\ LineKind(line) \notin {"name", "index", "contents"}
    /\ (line[1] \in WhiteSpace \/ line[1] = "[")

\* C12: a body line that does not begin with whitespace or has none of
\* [p], [trn], [*] aborts the run at that line: nothing is stored for it,
\* no further step is taken and nothing is printed; tables are printed only
\* when every line of the input was processed without error, and then all
\* seven are.
C12_AllOrNothing ==
    [][/\ pc # "panic"
       /\ (/\ ReadsLine
           /\ IsBodyLine(input[pos + 1])
           /\ \/ input[pos + 1][1] \notin WhiteSpace
              \/ \A tag \in ExpectedTags : ~Contains(input[pos + 1], tag))
              => (pc' = "panic" /\ db' = db /\ out' = <<>>)
       /\ pc' = "panic" => out' = <<>>
       /\ out' # <<>>
              => /\ pc' = "done"
                 /\ pos' = Len(input)
                 /\ Len(trace') = Len(input)
                 /\ \A i \in 1..Len(trace') : trace'[i] # "invalid"
                 /\ out' = [i \in 1..Len(tables) |-> String(db[tables[i]])]
                 /\ Len(out') = 7]_vars

\* the run was aborted at a line without tags, with a line left unread
C12_Witness ==
    /\ pc = "panic"
    /\ pos = 2
    /\ Len(input) = 3
    /\ input[pos] = LineNoTag
    /\ Len(db.wordsTable.rows) = 1
    /\ out = <<>>

\* C13 as claimed: a translation line adds a TranslationAttribute row and an
\* AttributeTranslation row exactly when the note's [c value] qualifier was
\* extracted on that line, and the attribute stored is that qualifier value.
C13_AttributeFromQualifier ==
    [][(ReadsLine /\ LineKind(input[pos + 1]) = "translation")
          => LET qualifier == extractNote(input[pos + 1])[1]
                 attrs == db.translationAttributesTable
                 links == db.translationAttributesToTranslationsTable
                 links2 == db'.translationAttributesToTranslationsTable
             IN  IF qualifier # <<>>
                 THEN /\ Len(links2.rows) = Len(links.rows) + 1
                      /\ LET a == Last(links2.rows)[1]
                         IN  \E k \in 1..Len(db'.translationAttributesTable.rows) :
                                /\ a = Itoa(k)
                                /\ db'.translationAttributesTable.rows[k]
                                       = <<qualifier>>
                 ELSE /\ db'.translationAttributesTable = attrs
                      /\ links2 = links]_vars

\* the row (a, b) of a two-column join table
HasRow(t, a, b) == \E k \in 1..Len(t.rows) : t.rows[k] = <<Itoa(a), Itoa(b)>>

\* C14 as claimed: a note-only line sets the current grammar type to the
\* GrammarType row of its note; only a note-only line or a headword line
\* changes it; every translation line read while a grammar type g is current
\* leaves the row (g, id of that line's Translation row) in
\* GrammarTypeTranslation.
C14_GrammarTypePersists ==
    [][ReadsLine
          => LET kind == LineKind(input[pos + 1])
             IN  /\ kind = "note"
                    => /\ gramTypeId' \in 1..Len(db'.gramTypeTable.rows)
                       /\ db'.gramTypeTable.rows[gramTypeId']
                              = <<extractNote(input[pos + 1])[2]>>
                 /\ kind \notin {"note", "title"} => gramTypeId' = gramTypeId
                 /\ (kind = "translation" /\ gramTypeId > 0)
                    => HasRow(db'.gramTypeTranslationTable, gramTypeId,
                              Len(db'.translationsTable.rows))]_vars


\* index of the last line so far that took the given branch, 0 if none
LastIndex(kind) == SetMax({0} \cup {i \in 1..Len(trace) : trace[i] = kind})

\* C15: a headword line sets the current grammar-type id and attribute id to
\* 0; a translation line after a headword with no note-only line in between
\* adds no GrammarTypeTranslation row; a translation line under a headword
\* that does add one links the grammar type of the last note-only line, which
\* was read under that same headword.
C15_HeadwordResetsGrammarType ==
    [][ReadsLine
          => LET kind == LineKind(input[pos + 1])
                 links == db.gramTypeTranslationTable
                 links2 == db'.gramTypeTranslationTable
             IN  /\ kind = "title" => (gramTypeId' = 0 /\ attributeId' = 0)
                 /\ (kind = "translation" /\ LastIndex("title") > LastIndex("note"))
                    => links2 = links
                 /\ (kind = "translation" /\ LastIndex("title") > 0
                        /\ links2 # links)
                    => /\ LastIndex("note") > LastIndex("title")
                       /\ Len(links2.rows) = Len(links.rows) + 1
                       /\ Last(links2.rows)[1] = Itoa(gramTypeId)
                       /\ gramTypeId \in 1..Len(db.gramTypeTable.rows)
                       /\ db.gramTypeTable.rows[gramTypeId]
                              = <<extractNote(input[LastIndex("note")])[2]>>]_vars

\* both headwords of TwoHeadwordsInput were read: one link, two translations
C15_Witness ==
    /\ input = TwoHeadwordsInput
    /\ pos = Len(input)
    /\ gramTypeId = 0
    /\ Len(db.translationsTable.rows) = 2
    /\ Len(db.gramTypeTranslationTable.rows) = 1


\* C16 as claimed: over any input, the dictionary id and the two language
\* ids are each assigned at most once, Dictionary never holds more than one
\* row, and at most one #INDEX_LANGUAGE line and one #CONTENTS_LANGUAGE line
\* insert into Language.
C16_HeaderFieldsSetOnce ==
    /\ CountKinds({"name"}) <= 1
    /\ CountKinds({"index"}) <= 1
    /\ CountKinds({"contents"}) <= 1
    /\ Len(db.dictionariesTable.rows) <= 1


\* C17: a body line that passes validation and yields neither a translation
\* nor a non-empty note leaves every table and all session state (word,
\* grammar-type, attribute and header ids, header names) unchanged.
C17_NoEffectBodyLine ==
    [][(/\ ReadsLine
        /\ IsBodyLine(input[pos + 1])
        /\ validateBodyLine(input[pos + 1]) = ""
        /\ extractTranslation(input[pos + 1]) = <<>>
        /\ extractNote(input[pos + 1])[2] = <<>>)
          => /\ db' = db
             /\ ids' = ids
             /\ names' = names
             /\ pc' = "scan"]_vars

\* a relation-only line was read while a grammar type was current
C17_Witness ==
    /\ pos = 2
    /\ input[1] = LineNote
    /\ input[2] = LineRelation
    /\ Last(trace) = "none"
    /\ gramTypeId = 1
    /\ Len(db.gramTypeTable.rows) = 1


\* the two rows print the same text in every unique-key column of t
SameKeyTuple(t, row1, row2) ==
    \A i \in 1..Len(t.uniqueColIndices) :
        Sprint(row1[t.uniqueColIndices[i] + 1])
            = Sprint(row2[t.uniqueColIndices[i] + 1])

\* C18 as claimed: in a store with a multi-column unique key, an AddRow
\* returns the identity of an earlier row, and appends nothing, only if some
\* row inserted before agrees with the new row on every key column; an AddRow
\* whose key tuple differs from that of every inserted row appends a row with
\* a new identity.
C18_DedupOnlyEqualKeyTuples ==
    [][(/\ Calls("AddRow")
        /\ call'.panic = ""
        /\ Len(db[target].uniqueColIndices) > 1)
          => LET t == db[target]
                 known == \E k \in 1..Len(inserted) :
                              SameKeyTuple(t, inserted[k], call'.row)
             IN  /\ ~call'.appended => known
                 /\ ~known => /\ call'.appended
                              /\ Len(db'[target].rows) = Len(t.rows) + 1
                              /\ call'.id = Len(t.rows) + 1]_vars


\* C19: every body line on which a translation is extracted appends one Word
\* row and exactly one Translation row (current headword id, id of that Word
\* row); after every step the Translation row count equals the number of
\* translation lines read and no two Translation rows share a word_to_id.
C19_NoTranslationLost ==
    [][LET words == db'.wordsTable
           translations == db'.translationsTable
       IN  /\ (ReadsLine /\ LineKind(input[pos + 1]) = "translation")
              => /\ Len(words.rows) = Len(db.wordsTable.rows) + 1
                 /\ wordToId' = Len(words.rows)
                 /\ Last(words.rows)[1] = extractTranslation(input[pos + 1])
                 /\ Len(translations.rows) = Len(db.translationsTable.rows) + 1
                 /\ translationId' = Len(translations.rows)
                 /\ Last(translations.rows) = <<Itoa(wordFromId), Itoa(wordToId')>>
           /\ Len(translations.rows)
                  = Cardinality({i \in 1..Len(trace') : trace'[i] = "translation"})
           /\ \A i, j \in 1..Len(translations.rows) :
                  i # j => translations.rows[i][2] # translations.rows[j][2]]_vars

\* all of ManyNotesInput was read: eleven translations under one headword,
\* all kept, while one of their grammar-type links was not
C19_Witness ==
    /\ input = ManyNotesInput
    /\ pos = Len(input)
    /\ Len(db.translationsTable.rows) = Len(NoteTexts)
    /\ Last(db.translationsTable.rows) = <<Itoa(1), Itoa(Len(NoteTexts) + 1)>>
    /\ Len(db.gramTypeTranslationTable.rows) = Len(NoteTexts) - 1

====
